---------------------------- MODULE Spec2Model ----------------------------
(***************************************************************************)
(* 4444cast: a one-shot command line tool that resolves a ZIP code to      *)
(* coordinates (through a flat-file cache or a geocoding API), fetches the *)
(* NWS forecast with a retrying GET, renders it as text and prints it or   *)
(* posts it (optionally with a synthesized audio file) to a webhook.       *)
(*                                                                         *)
(* Text is modelled by TLA+ strings, so that substring search, splitting,  *)
(* float parsing and formatting are computed as the Python code computes   *)
(* them.  Non-ASCII output (the icons, the degree sign) is written with    *)
(* ASCII stand-ins.                                                        *)
(***************************************************************************)
EXTENDS Integers, Sequences, FiniteSets, TLC

(***************************************************************************)
(* Bounds of the model.                                                    *)
(***************************************************************************)
\* Most lines the cache file holds when the process starts.
MaxCacheLines == 2
\* Most forecast periods the forecast API returns.
MaxPeriods == 2

(***************************************************************************)
(* Program constants.                                                      *)
(***************************************************************************)
API_MAX_RETRIES == 5
status_forcelist == {429, 500, 502, 503, 504}
RETRY_AFTER_STATUS_CODES == {413, 429, 503}
LIMIT_MIN == 1
LIMIT_MAX == 20
WEBHOOK_NAME == "Barthur"
zip_cache_filename == ".zip_cache"

(***************************************************************************)
(* Python string primitives.                                               *)
(***************************************************************************)
\* s[i] as a one-character string (1-based).
Char(s, i) == SubSeq(s, i, i)

\* Python `sub in s`.
Contains(sub, s) ==
    \E i \in 0 .. (Len(s) - Len(sub)) : SubSeq(s, i + 1, i + Len(sub)) = sub

\* Index of the first occurrence of the one-character string c in s, 0 if none.
RECURSIVE FindFrom(_, _, _)
FindFrom(s, c, i) ==
    IF i > Len(s) THEN 0
    ELSE IF Char(s, i) = c THEN i
    ELSE FindFrom(s, c, i + 1)

\* Python s.split(sep) for a one-character separator.
RECURSIVE Split(_, _)
Split(s, sep) ==
    LET k == FindFrom(s, sep, 1)
    IN  IF k = 0 THEN << s >>
        ELSE << SubSeq(s, 1, k - 1) >> \o Split(SubSeq(s, k + 1, Len(s)), sep)

\* Iterating a text file: its lines, each with its line terminator kept.
RECURSIVE FileLines(_)
FileLines(text) ==
    IF text = "" THEN << >>
    ELSE LET k == FindFrom(text, "\n", 1)
         IN  IF k = 0 THEN << text >>
             ELSE << SubSeq(text, 1, k) >> \o FileLines(SubSeq(text, k + 1, Len(text)))

\* Python s.strip() for the white space that occurs here.
RECURSIVE Strip(_)
Strip(s) ==
    IF s = "" THEN s
    ELSE IF Char(s, 1) \in {" ", "\n"} THEN Strip(SubSeq(s, 2, Len(s)))
    ELSE IF Char(s, Len(s)) \in {" ", "\n"} THEN Strip(SubSeq(s, 1, Len(s) - 1))
    ELSE s

Digits == "0123456789"
IsDigit(c) == FindFrom(Digits, c, 1) # 0
DigitVal(c) == FindFrom(Digits, c, 1) - 1
AllDigits(s) == \A i \in 1 .. Len(s) : IsDigit(Char(s, i))

RECURSIVE ToNat(_)
ToNat(s) == IF s = "" THEN 0
            ELSE 10 * ToNat(SubSeq(s, 1, Len(s) - 1)) + DigitVal(Char(s, Len(s)))

RECURSIVE StripZeros(_)
StripZeros(s) == IF s # "" /\ Char(s, Len(s)) = "0"
                 THEN StripZeros(SubSeq(s, 1, Len(s) - 1))
                 ELSE s

RECURSIVE Pow10(_)
Pow10(n) == IF n = 0 THEN 1 ELSE 10 * Pow10(n - 1)

(***************************************************************************)
(* Python float(s) on a decimal literal: the value is kept exactly, as     *)
(* m * 10^(-e) with no trailing zero in the fraction, so that "34.10" and  *)
(* "34.1" are the same float.  ok = FALSE stands for ValueError.           *)
(***************************************************************************)
Float(s) ==
    LET t    == Strip(s)
        neg  == t # "" /\ Char(t, 1) = "-"
        u    == IF t # "" /\ Char(t, 1) \in {"-", "+"} THEN SubSeq(t, 2, Len(t)) ELSE t
        dot  == FindFrom(u, ".", 1)
        ip   == IF dot = 0 THEN u ELSE SubSeq(u, 1, dot - 1)
        fp   == IF dot = 0 THEN "" ELSE SubSeq(u, dot + 1, Len(u))
        frac == StripZeros(fp)
        ok   == AllDigits(ip) /\ AllDigits(fp) /\ (ip \o fp) # ""
        abs  == ToNat(ip \o frac)
    IN  IF ok THEN [ok |-> TRUE, m |-> IF neg THEN 0 - abs ELSE abs, e |-> Len(frac)]
        ELSE [ok |-> FALSE, m |-> 0, e |-> 0]

\* The digits of n, padded with leading zeros to width w.
RECURSIVE ZeroPad(_, _)
ZeroPad(str, w) == IF Len(str) >= w THEN str ELSE ZeroPad("0" \o str, w)

\* Python str(x) of a float in an f-string: "34.1", "-118.4", "40.0".
FloatStr(f) ==
    LET abs == IF f.m < 0 THEN 0 - f.m ELSE f.m
        ip  == abs \div Pow10(f.e)
        fp  == abs % Pow10(f.e)
    IN  (IF f.m < 0 THEN "-" ELSE "") \o ToString(ip) \o "."
        \o (IF f.e = 0 THEN "0" ELSE ZeroPad(ToString(fp), f.e))


(***************************************************************************)
(* Inputs: command line values and what the external services answer.      *)
(***************************************************************************)
\* An optional command line value: << >> is None, << s >> is the string s.
None == << >>
Truthy(opt) == opt # None /\ opt[1] # ""

Zips == {"90210", "9021"}
Limits == {LIMIT_MIN - 1, LIMIT_MAX, LIMIT_MAX + 1} \cup (LIMIT_MIN .. MaxPeriods)
ApiKeys == {None, << "" >>, << "sk-1" >>}
WebhookUrls == {None, << "https://d/1" >>, << "https://d/1,https://d/2" >>}

\* The place the geocoding API knows for a ZIP code (latitude and longitude
\* are strings), and the "places" lists it may answer with.
GeoPlace(zip_code) ==
    IF zip_code = "90210" THEN [latitude |-> "34.09", longitude |-> "-118.4"]
    ELSE [latitude |-> "40.70", longitude |-> "-74.0"]
GeoBodies(zip_code) == { << >>, << GeoPlace(zip_code) >> }

\* The point lookup's answer.
NwsLocationResponse ==
    [city |-> "Beverly Hills", state |-> "CA", radarStation |-> "KSOX",
     forecast |-> "https://api.weather.gov/gridpoints/LOX/1,2/forecast"]

\* The forecast API's periods: a leading part of this sequence.
PeriodStream ==
    << [name |-> "Tonight", temperature |-> 55, shortForecast |-> "Mostly Clear",
        detailedForecast |-> "Mostly clear, with a low around 55."],
       [name |-> "Monday", temperature |-> 71, shortForecast |-> "Rain And Snow",
        detailedForecast |-> "Rain and snow likely."],
       [name |-> "Monday Night", temperature |-> 50, shortForecast |-> "Patchy Fog",
        detailedForecast |-> "Patchy fog after midnight."],
       [name |-> "Tuesday", temperature |-> 68, shortForecast |-> "Mostly Sunny",
        detailedForecast |-> "Mostly sunny, with a high near 68."] >>
PeriodBodies == { SubSeq(PeriodStream, 1, n) : n \in 0 .. MaxPeriods }

\* What one GET attempt meets: a network error, or a response with a status.
\* retry_after: whether the response carries a Retry-After header.
ServerStatuses == {200, 404, 413, 429, 500, 501, 502, 503, 504}
RetryAfterSent == {413, 503}
\* body: how the body of a 200 answer comes: "json", "cut" (the connection is
\* lost while it is read) or "not_json"; "" where no body is read.
NetworkError == [error |-> TRUE, status |-> 0, retry_after |-> FALSE, body |-> ""]
BodyOf(st) == IF st = 200 THEN "json" ELSE ""
BadBodies == {"cut", "not_json"}
Responses ==
    { NetworkError }
    \cup { [error |-> FALSE, status |-> st, retry_after |-> FALSE, body |-> BodyOf(st)] :
              st \in ServerStatuses }
    \cup { [error |-> FALSE, status |-> st, retry_after |-> TRUE, body |-> BodyOf(st)] :
              st \in RetryAfterSent }
    \cup { [error |-> FALSE, status |-> 200, retry_after |-> FALSE, body |-> b] : b \in BadBodies }
NoResponse == [error |-> FALSE, status |-> 0, retry_after |-> FALSE, body |-> ""]

\* What the webhook POST meets: "raise" is a timeout or a connection error.
PostOutcomes == {"204", "404", "raise"}

(***************************************************************************)
(* The coordinate cache.                                                   *)
(***************************************************************************)
\* The line cache_coordinates writes.
CacheLine(zip_code, lat, lng) == zip_code \o "," \o lat \o "," \o lng \o "\n"

\* zip_cache.write(...) on a file opened with 'a'.
cache_coordinates(zip_code, coords, file) ==
    [exists |-> TRUE, text |-> file.text \o CacheLine(zip_code, coords.lat, coords.lng)]

NoCoordinates == [type |-> "None", lat |-> "", lng |-> ""]

Min(S) == CHOOSE x \in S : \A y \in S : x <= y

\* The scan of the cache file.  found = FALSE is the None result; error is a
\* ValueError or IndexError raised while parsing the matching line.
get_coordinates_from_cache(zip_code, file) ==
    LET lines == IF file.exists THEN FileLines(file.text) ELSE << >>
        hits  == { i \in 1 .. Len(lines) : Contains(zip_code, lines[i]) }
    IN  IF hits = {} THEN [found |-> FALSE, error |-> FALSE, coords |-> NoCoordinates]
        ELSE LET fields == Split(lines[Min(hits)], ",")
                 lat    == IF Len(fields) >= 2 THEN Float(fields[2]) ELSE Float("")
                 lng    == IF Len(fields) >= 3 THEN Float(fields[3]) ELSE Float("")
             IN  IF lat.ok /\ lng.ok
                 THEN [found |-> TRUE, error |-> FALSE,
                       coords |-> [type |-> "float", lat |-> lat, lng |-> lng]]
                 ELSE [found |-> TRUE, error |-> TRUE, coords |-> NoCoordinates]

\* A coordinate as the f-string of the point lookup's URL writes it.
CoordStr(c) == IF c.type = "float" THEN [lat |-> FloatStr(c.lat), lng |-> FloatStr(c.lng)]
               ELSE [lat |-> c.lat, lng |-> c.lng]

GeoApiUrl(zip_code) == "https://api.zippopotam.us/us/" \o zip_code
NwsLocationApiUrl(c) ==
    "https://api.weather.gov/points/" \o CoordStr(c).lat \o "," \o CoordStr(c).lng

(***************************************************************************)
(* The retrying GET: urllib3's Retry(total = API_MAX_RETRIES) under        *)
(* session.get, then raise_for_status.  attempt counts the requests sent,  *)
(* this one included.                                                      *)
(***************************************************************************)
\* (The slip: every error status retried.)
IsRetryable_AnyErrorStatus(resp) == resp.error \/ resp.status >= 400
\* What Retry retries: an error of the connection, a status of the
\* status_forcelist and, respect_retry_after_header being left at its default,
\* a 413, 429 or 503 that carries a Retry-After header.  (With the retries used
\* up the header counts no more; call_retriable_api raises then in any case.)
IsRetryable(resp) ==
    \/ resp.error
    \/ resp.status \in status_forcelist
    \/ resp.retry_after /\ resp.status \in RETRY_AFTER_STATUS_CODES

\* (The slip: raise_for_status left out.)
call_retriable_api_NoRaiseForStatus(attempt, resp) ==
    IF IsRetryable(resp)
    THEN IF attempt <= API_MAX_RETRIES THEN "retry" ELSE "raise"
    ELSE IF resp.body \in BadBodies THEN "raise" ELSE "ok"

\* "raise": a RequestException reaches the except clause, from session.get
\* (retries used up, or the body of the answer cut short), raise_for_status
\* or response.json().
call_retriable_api(attempt, resp) ==
    IF IsRetryable(resp)
    THEN IF attempt <= API_MAX_RETRIES THEN "retry" ELSE "raise"
    ELSE IF resp.body = "cut" THEN "raise"
    ELSE IF resp.status >= 400 THEN "raise"
    ELSE IF resp.body = "not_json" THEN "raise"
    ELSE "ok"

ErrorText(resp) ==
    IF resp.error THEN "Error: connection failed"
    ELSE IF resp.body = "cut" THEN "Error: Connection broken"
    ELSE IF resp.body = "not_json" THEN "Error: Expecting value"
    ELSE IF resp.status \in status_forcelist THEN "Error: too many " \o ToString(resp.status) \o " error responses"
    ELSE IF resp.status >= 500 THEN "Error: " \o ToString(resp.status) \o " Server Error"
    ELSE "Error: " \o ToString(resp.status) \o " Client Error"

(***************************************************************************)
(* Rendering.                                                              *)
(***************************************************************************)
Upper == "ABCDEFGHIJKLMNOPQRSTUVWXYZ"
LowerCase == "abcdefghijklmnopqrstuvwxyz"
LowerOf == [c \in { Char(Upper, k) : k \in 1 .. Len(Upper) } |->
               Char(LowerCase, FindFrom(Upper, c, 1))]

\* Python s.lower().
RECURSIVE Lower(_)
Lower(s) ==
    IF s = "" THEN ""
    ELSE LET c == Char(s, 1)
         IN  (IF c \in DOMAIN LowerOf THEN LowerOf[c] ELSE c) \o Lower(SubSeq(s, 2, Len(s)))

\* icon_mapping, in its insertion order; the icons are written by name.
icon_mapping ==
    << << "sunny", "[sun]" >>, << "clear", "[moon]" >>, << "cloudy", "[cloud]" >>,
       << "rain", "[rain]" >>, << "thunder", "[storm]" >>, << "snow", "[snowflake]" >> >>

\* (The slip: the last keyword of the table that occurs wins, not the first.)
get_weather_icon_LastMatch(text) ==
    LET forecast == Lower(text)
        hits == { i \in 1 .. Len(icon_mapping) : Contains(icon_mapping[i][1], forecast) }
    IN  IF hits = {} THEN "[?]"
        ELSE icon_mapping[CHOOSE i \in hits : \A j \in hits : j <= i][2]

get_weather_icon(text) ==
    LET forecast == Lower(text)
        hits == { i \in 1 .. Len(icon_mapping) : Contains(icon_mapping[i][1], forecast) }
    IN  IF hits = {} THEN "[?]" ELSE icon_mapping[Min(hits)][2]

PeriodBlock(period, markdown) ==
    LET bold == IF markdown THEN "**" ELSE ""
        blockquote == IF markdown THEN ">" ELSE " "
    IN  bold \o period.name \o ":" \o bold \o "\n"
        \o blockquote \o " " \o get_weather_icon(period.shortForecast) \o " "
        \o ToString(period.temperature) \o " F " \o period.shortForecast \o "\n"
        \o blockquote \o " " \o period.detailedForecast \o "\n\n"

RECURSIVE PeriodBlocks(_, _, _)
PeriodBlocks(periods, n, markdown) ==
    IF n = 0 THEN ""
    ELSE PeriodBlocks(periods, n - 1, markdown) \o PeriodBlock(periods[n], markdown)

OutputHeader(loc, markdown) ==
    (IF markdown THEN "## " ELSE "") \o "Weather forecast for " \o loc.city \o ", "
    \o loc.state \o " (" \o loc.radar_station \o "):\n\n"

\* The text construct_output builds once the forecast is fetched; error is
\* the IndexError of periods[i] when fewer than limit periods came back.
construct_output(loc, periods, limit, markdown) ==
    IF limit > Len(periods) THEN [error |-> TRUE, text |-> ""]
    ELSE [error |-> FALSE,
          text |-> OutputHeader(loc, markdown) \o PeriodBlocks(periods, limit, markdown)]

get_location(resp) ==
    [city |-> resp.city, state |-> resp.state, radar_station |-> resp.radarStation]
NoLocation == [city |-> "", state |-> "", radar_station |-> ""]

(***************************************************************************)
(* State.                                                                  *)
(***************************************************************************)
VARIABLES
    zip_cache,      \* the cache file: [exists, text]
    audio_on_disk,  \* whether the temporary audio file exists on disk
    pc,             \* where the process is; "shell": not started, "done": exited
    options,        \* the parsed command line
    coordinates,    \* what get_coordinates returned
    attempts,       \* requests sent so far by the retrying GET in progress
    last_response,  \* what the last GET attempt met
    location,       \* get_location's result
    periods,        \* the periods of the forecast response
    forecast_text,  \* construct_output's result
    net,            \* the calls issued to external services, in order
    stdout,         \* what was printed to standard output
    stderr,         \* the lines printed to standard error
    exit_code,      \* None while running, << code >> once exited
    cache_ops,      \* the accesses to the cache file
    cache_before,   \* the cache file as the process found it
    audio_created,  \* whether the process wrote the audio file
    short_forecast, \* a short-forecast string handed to get_weather_icon on its own
    weather_icon    \* None, or << the icon get_weather_icon returned for it >>

vars == << zip_cache, audio_on_disk, pc, options, coordinates, attempts, last_response,
           location, periods, forecast_text, net, stdout, stderr, exit_code, cache_ops,
           cache_before, audio_created, short_forecast, weather_icon >>

NoOptions == [zip_code |-> "", limit |-> 0, markdown |-> FALSE,
              openai_api_key |-> None, discord_webhook_url |-> None]

\* get_command_line_args' two checks of the parsed values.  (Before each, the
\* same check with a slip: an upper bound off by one, the two options swapped.)
LimitOutOfRange_OffByOne(limit) == limit < LIMIT_MIN \/ limit > LIMIT_MAX + 1
LimitOutOfRange(limit) == limit < LIMIT_MIN \/ limit > LIMIT_MAX
KeyWithoutWebhook_Swapped(key, url) == Truthy(url) /\ ~Truthy(key)
KeyWithoutWebhook(key, url) == Truthy(key) /\ ~Truthy(url)

\* (The slip: the key tested against None instead of for truth.)
OutputBranch_KeyNotNone(key, url) ==
    IF key # None THEN "narrate"
    ELSE IF Truthy(url) THEN "webhook"
    ELSE "console"

\* The branch output_forecast takes.
OutputBranch(key, url) ==
    IF Truthy(key) THEN "narrate"
    ELSE IF Truthy(url) THEN "webhook"
    ELSE "console"

\* (The slip: an empty list read as empty coordinates instead of raising.)
GeoCoordinates_NoIndexError(places) ==
    IF places = << >>
    THEN [error |-> FALSE, coords |-> [type |-> "str", lat |-> "", lng |-> ""]]
    ELSE [error |-> FALSE,
          coords |-> [type |-> "str", lat |-> places[1].latitude, lng |-> places[1].longitude]]

\* The coordinates get_coordinates_from_geo_api reads from the answer; error
\* is the IndexError of places[0] on an empty list.
GeoCoordinates(places) ==
    IF places = << >> THEN [error |-> TRUE, coords |-> NoCoordinates]
    ELSE [error |-> FALSE,
          coords |-> [type |-> "str", lat |-> places[1].latitude, lng |-> places[1].longitude]]

\* The cache files the process may find: absent, or the lines earlier runs
\* (which may have overlapped) appended, in any order.
EntryLines == { CacheLine(z, GeoPlace(z).latitude, GeoPlace(z).longitude) : z \in Zips }

RECURSIVE CacheTexts(_)
CacheTexts(n) ==
    IF n = 0 THEN {""}
    ELSE LET prev == CacheTexts(n - 1)
         IN  prev \cup { t \o l : t \in prev, l \in EntryLines }

InitCaches == { [exists |-> FALSE, text |-> ""] }
              \cup { [exists |-> TRUE, text |-> t] : t \in CacheTexts(MaxCacheLines) \ {""} }

Call(svc, url, content, file) == [svc |-> svc, url |-> url, content |-> content, file |-> file]

\* requests.post to the webhook: the text, and the audio file when there is one.
WebhookCall(url, text, with_audio) == Call("webhook", url, text, with_audio)

Init ==
    /\ zip_cache \in InitCaches
    /\ audio_on_disk = FALSE
    /\ pc = "shell"
    /\ options = NoOptions
    /\ coordinates = NoCoordinates
    /\ attempts = 0
    /\ last_response = NoResponse
    /\ location = NoLocation
    /\ periods = << >>
    /\ forecast_text = ""
    /\ net = << >>
    /\ stdout = ""
    /\ stderr = << >>
    /\ exit_code = None
    /\ cache_ops = << >>
    /\ cache_before = zip_cache
    /\ audio_created = FALSE
    /\ short_forecast = ""
    /\ weather_icon = None

\* The process ends: sys.exit(code), an uncaught exception (code 1), or the
\* end of main (code 0).
Terminate(code, lines) ==
    /\ pc' = "done"
    /\ exit_code' = << code >>
    /\ stderr' = stderr \o lines

(***************************************************************************)
(* main: get_command_line_args.  The process starts and parses and         *)
(* validates its arguments.                                                *)
(***************************************************************************)
get_command_line_args ==
    /\ pc = "shell"
    /\ \E z \in Zips, l \in Limits, md \in BOOLEAN, key \in ApiKeys, url \in WebhookUrls :
        /\ options' = [zip_code |-> z, limit |-> l, markdown |-> md,
                       openai_api_key |-> key, discord_webhook_url |-> url]
        /\ IF LimitOutOfRange(l)
           THEN /\ pc' = "done"
                /\ exit_code' = << 1 >>
                /\ stderr' = << "Error: Limit must be a value between 1-20." >>
           ELSE IF KeyWithoutWebhook(key, url)
           THEN /\ pc' = "done"
                /\ exit_code' = << 1 >>
                /\ stderr' = << "Error: OpenAI API key requires a Discord webhook URL." >>
           ELSE /\ pc' = "construct_output"
                /\ exit_code' = None
                /\ stderr' = << >>
    /\ UNCHANGED << short_forecast, weather_icon, zip_cache, audio_on_disk, coordinates, attempts, last_response,
                    location, periods, forecast_text, net, stdout, cache_ops,
                    cache_before, audio_created >>

(***************************************************************************)
(* construct_output -> get_forecast_from_weather_api -> get_coordinates:   *)
(* the cache is scanned; a hit goes on to the point lookup, a miss to the  *)
(* geocoding API.                                                          *)
(***************************************************************************)
get_coordinates ==
    /\ pc = "construct_output"
    /\ LET r      == get_coordinates_from_cache(options.zip_code, zip_cache)
           banner == "Getting forecast for " \o options.zip_code \o "... "
       IN  /\ cache_ops' = cache_ops \o (IF zip_cache.exists THEN << "exists", "read" >>
                                         ELSE << "exists" >>)
           /\ IF r.found /\ r.error
              THEN /\ Terminate(1, << banner, "Using cached coordinates.", "Traceback" >>)
                   /\ UNCHANGED << coordinates, net >>
              ELSE IF r.found
              THEN /\ coordinates' = r.coords
                   /\ net' = Append(net, Call("nws_location_api", NwsLocationApiUrl(r.coords), "", FALSE))
                   /\ pc' = "nws_location_api"
                   /\ stderr' = stderr \o << banner, "Using cached coordinates." >>
                   /\ UNCHANGED exit_code
              ELSE /\ net' = Append(net, Call("geo_api", GeoApiUrl(options.zip_code), "", FALSE))
                   /\ pc' = "geo_api"
                   /\ stderr' = stderr \o << banner, "Getting coordinates from geo API." >>
                   /\ UNCHANGED << coordinates, exit_code >>
    /\ attempts' = 0
    /\ UNCHANGED << short_forecast, weather_icon, zip_cache, audio_on_disk, options, periods, last_response, location,
                    forecast_text, stdout, cache_before, audio_created >>

(***************************************************************************)
(* get_coordinates_from_geo_api: one attempt of the geocoding GET.  A      *)
(* usable answer is cached and the point lookup starts.                    *)
(***************************************************************************)
get_coordinates_from_geo_api ==
    /\ pc = "geo_api"
    /\ \E resp \in Responses :
        LET verdict == call_retriable_api(attempts + 1, resp)
        IN  /\ last_response' = resp
            /\ IF verdict = "retry"
               THEN /\ attempts' = attempts + 1
                    /\ UNCHANGED << pc, exit_code, stderr, zip_cache, coordinates, net, cache_ops >>
               ELSE IF verdict = "raise"
               THEN /\ attempts' = attempts + 1
                    /\ Terminate(1, << ErrorText(resp) >>)
                    /\ UNCHANGED << zip_cache, coordinates, net, cache_ops >>
               ELSE \E places \in GeoBodies(options.zip_code) :
                    IF GeoCoordinates(places).error
                    THEN /\ attempts' = attempts + 1
                         /\ Terminate(1, << "Traceback" >>)
                         /\ UNCHANGED << zip_cache, coordinates, net, cache_ops >>
                    ELSE LET c == GeoCoordinates(places).coords
                         IN  /\ zip_cache' = cache_coordinates(options.zip_code, c, zip_cache)
                             /\ cache_ops' = Append(cache_ops, "append")
                             /\ coordinates' = c
                             /\ net' = Append(net, Call("nws_location_api", NwsLocationApiUrl(c), "", FALSE))
                             /\ pc' = "nws_location_api"
                             /\ attempts' = 0
                             /\ UNCHANGED << exit_code, stderr >>
    /\ UNCHANGED << short_forecast, weather_icon, audio_on_disk, options, periods, location, forecast_text, stdout,
                    cache_before, audio_created >>

(***************************************************************************)
(* get_forecast_from_weather_api: one attempt of the point lookup.         *)
(***************************************************************************)
get_nws_location ==
    /\ pc = "nws_location_api"
    /\ \E resp \in Responses :
        LET verdict == call_retriable_api(attempts + 1, resp)
        IN  /\ last_response' = resp
            /\ IF verdict = "retry"
               THEN /\ attempts' = attempts + 1
                    /\ UNCHANGED << pc, exit_code, stderr, location, net >>
               ELSE IF verdict = "raise"
               THEN /\ attempts' = attempts + 1
                    /\ Terminate(1, << ErrorText(resp) >>)
                    /\ UNCHANGED << location, net >>
               ELSE /\ location' = get_location(NwsLocationResponse)
                    /\ net' = Append(net, Call("nws_forecast_api", NwsLocationResponse.forecast, "", FALSE))
                    /\ pc' = "nws_forecast_api"
                    /\ attempts' = 0
                    /\ UNCHANGED << exit_code, stderr >>
    /\ UNCHANGED << short_forecast, weather_icon, zip_cache, audio_on_disk, options, periods, coordinates, forecast_text,
                    stdout, cache_ops, cache_before, audio_created >>

(***************************************************************************)
(* One attempt of the forecast GET; a usable answer is returned to         *)
(* construct_output.                                                       *)
(***************************************************************************)
get_nws_forecast ==
    /\ pc = "nws_forecast_api"
    /\ \E resp \in Responses :
        LET verdict == call_retriable_api(attempts + 1, resp)
        IN  /\ last_response' = resp
            /\ IF verdict = "retry"
               THEN /\ attempts' = attempts + 1
                    /\ UNCHANGED << pc, exit_code, stderr, periods >>
               ELSE IF verdict = "raise"
               THEN /\ attempts' = attempts + 1
                    /\ Terminate(1, << ErrorText(resp) >>)
                    /\ UNCHANGED periods
               ELSE \E ps \in PeriodBodies :
                    /\ periods' = ps
                    /\ pc' = "render"
                    /\ attempts' = 0
                    /\ UNCHANGED << exit_code, stderr >>
    /\ UNCHANGED << short_forecast, weather_icon, zip_cache, audio_on_disk, options, coordinates, location, forecast_text,
                    net, stdout, cache_ops, cache_before, audio_created >>

(***************************************************************************)
(* construct_output renders the text, and output_forecast starts: the      *)
(* narration path, the text-only webhook POST, or the console.             *)
(***************************************************************************)
render_and_output ==
    /\ pc = "render"
    /\ LET out    == construct_output(location, periods, options.limit, options.markdown)
           branch == OutputBranch(options.openai_api_key, options.discord_webhook_url)
       IN  IF out.error
           THEN /\ Terminate(1, << "Traceback" >>)
                /\ UNCHANGED << forecast_text, net, stdout >>
           ELSE /\ forecast_text' = out.text
                /\ IF branch = "narrate"
                   THEN /\ net' = Append(net, Call("chat.completions", "", forecast_text', FALSE))
                        /\ pc' = "generate_audio_script"
                        /\ stderr' = Append(stderr, "Generating audio script... ")
                        /\ UNCHANGED << exit_code, stdout >>
                   ELSE IF branch = "webhook"
                   THEN /\ net' = Append(net, WebhookCall(options.discord_webhook_url[1],
                                                          forecast_text', FALSE))
                        /\ pc' = "webhook_post_text"
                        /\ UNCHANGED << exit_code, stderr, stdout >>
                   ELSE /\ stdout' = forecast_text'
                        /\ Terminate(0, << >>)
                        /\ UNCHANGED net
    /\ UNCHANGED << short_forecast, weather_icon, zip_cache, audio_on_disk, options, coordinates, attempts, last_response,
                    location, periods, cache_ops, cache_before, audio_created >>

(***************************************************************************)
(* output_forecast, narration path: the text-generation call returns.      *)
(***************************************************************************)
generate_audio_script ==
    /\ pc = "generate_audio_script"
    /\ \E ok \in BOOLEAN :
        IF ok
        THEN /\ net' = Append(net, Call("audio.speech", "", "", FALSE))
             /\ pc' = "generate_audio_file"
             /\ stderr' = Append(stderr, "Generating audio file... ")
             /\ UNCHANGED exit_code
        ELSE /\ Terminate(1, << "Error: OpenAIError" >>)
             /\ UNCHANGED net
    /\ UNCHANGED << short_forecast, weather_icon, zip_cache, audio_on_disk, options, periods, coordinates, attempts, last_response,
                    location, forecast_text, stdout, cache_ops, cache_before, audio_created >>

(***************************************************************************)
(* The speech-synthesis call returns; the audio is written to the          *)
(* temporary file and the webhook POST, with the file attached, is sent.   *)
(***************************************************************************)
generate_audio_file ==
    /\ pc = "generate_audio_file"
    /\ \E ok \in BOOLEAN :
        IF ok
        THEN /\ audio_on_disk' = TRUE
             /\ audio_created' = TRUE
             /\ net' = Append(net, WebhookCall(options.discord_webhook_url[1],
                                               forecast_text, TRUE))
             /\ pc' = "webhook_post_audio"
             /\ stderr' = Append(stderr, "Sending to Discord webhook... ")
             /\ UNCHANGED exit_code
        ELSE /\ Terminate(1, << "Error: OpenAIError" >>)
             /\ UNCHANGED << audio_on_disk, audio_created, net >>
    /\ UNCHANGED << short_forecast, weather_icon, zip_cache, options, periods, coordinates, attempts, last_response, location,
                    forecast_text, stdout, cache_ops, cache_before >>

(***************************************************************************)
(* The POST with the audio file ends.  A response of any status is printed *)
(* and the file removed; an exception of requests.post leaves main.        *)
(***************************************************************************)
webhook_post_audio ==
    /\ pc = "webhook_post_audio"
    /\ \E outcome \in PostOutcomes :
        IF outcome = "raise"
        THEN /\ Terminate(1, << "Traceback" >>)
             /\ UNCHANGED audio_on_disk
        ELSE /\ Terminate(0, << "Discord response: <Response [" \o outcome \o "]>" >>)
             /\ audio_on_disk' = FALSE
    /\ UNCHANGED << short_forecast, weather_icon, zip_cache, options, periods, coordinates, attempts, last_response, location,
                    forecast_text, net, stdout, cache_ops, cache_before, audio_created >>

(***************************************************************************)
(* The text-only POST (webhook without a narration key) ends.              *)
(***************************************************************************)
webhook_post_text ==
    /\ pc = "webhook_post_text"
    /\ \E outcome \in PostOutcomes :
        IF outcome = "raise"
        THEN Terminate(1, << "Traceback" >>)
        ELSE Terminate(0, << "Discord response: <Response [" \o outcome \o "]>" >>)
    /\ UNCHANGED << short_forecast, weather_icon, zip_cache, audio_on_disk, options, periods, coordinates, attempts, last_response,
                    location, forecast_text, net, stdout, cache_ops, cache_before,
                    audio_created >>

(***************************************************************************)
(* main's except KeyboardInterrupt: the user interrupts the running        *)
(* process.                                                                *)
(***************************************************************************)
KeyboardInterrupt ==
    /\ pc \notin {"shell", "done"}
    /\ Terminate(1, << "Error: Script execution cancelled." >>)
    /\ UNCHANGED << short_forecast, weather_icon, zip_cache, audio_on_disk, options, periods, coordinates, attempts, last_response,
                    location, forecast_text, net, stdout, cache_ops, cache_before,
                    audio_created >>

Next ==
    \/ get_command_line_args
    \/ get_coordinates
    \/ get_coordinates_from_geo_api
    \/ get_nws_location
    \/ get_nws_forecast
    \/ render_and_output
    \/ generate_audio_script
    \/ generate_audio_file
    \/ webhook_post_audio
    \/ webhook_post_text
    \/ KeyboardInterrupt

Spec == Init /\ [][Next]_vars

(***************************************************************************)
(* get_weather_icon on its own: a short-forecast string is given and the   *)
(* function classifies it.  The strings are one or two forecast words, in  *)
(* several spellings.                                                      *)
(***************************************************************************)
ForecastWords ==
    {"Sunny", "Clear", "Cloudy", "Rain", "Thunderstorms", "T-storms", "Snow",
     "Patchy Fog", "Windy", "RAIN", "snow"}
ShortForecasts ==
    {""} \cup ForecastWords \cup { a \o " And " \o b : a \in ForecastWords, b \in ForecastWords }

InitIcon ==
    /\ zip_cache = [exists |-> FALSE, text |-> ""]
    /\ audio_on_disk = FALSE
    /\ pc = "shell"
    /\ options = NoOptions
    /\ coordinates = NoCoordinates
    /\ attempts = 0
    /\ last_response = NoResponse
    /\ location = NoLocation
    /\ periods = << >>
    /\ forecast_text = ""
    /\ net = << >>
    /\ stdout = ""
    /\ stderr = << >>
    /\ exit_code = None
    /\ cache_ops = << >>
    /\ cache_before = zip_cache
    /\ audio_created = FALSE
    /\ short_forecast \in ShortForecasts
    /\ weather_icon = None

classify_icon ==
    /\ weather_icon = None
    /\ weather_icon' = << get_weather_icon(short_forecast) >>
    /\ UNCHANGED << zip_cache, audio_on_disk, pc, options, coordinates, attempts,
                    last_response, location, periods, forecast_text, net, stdout, stderr,
                    exit_code, cache_ops, cache_before, audio_created, short_forecast >>

NextIcon == classify_icon

SpecIcon == InitIcon /\ [][NextIcon]_vars

(***************************************************************************)
(* Notions the properties below are stated with.                           *)
(***************************************************************************)
\* The ZIP code's own entries in a cache file: the lines whose first field it is.
ZipField(line) == Split(line, ",")[1]
OwnEntries(zip_code, file) ==
    { i \in 1 .. Len(FileLines(file.text)) : ZipField(FileLines(file.text)[i]) = zip_code }
HasEntry(zip_code, file) == file.exists /\ OwnEntries(zip_code, file) # {}
OwnEntry(zip_code, file) ==
    LET fields == Split(FileLines(file.text)[Min(OwnEntries(zip_code, file))], ",")
    IN  [lat |-> Float(fields[2]), lng |-> Float(fields[3])]

\* The resolved coordinates as numbers, whichever way they were obtained.
CoordValue(c) == IF c.type = "str" THEN [lat |-> Float(c.lat), lng |-> Float(c.lng)]
                 ELSE [lat |-> c.lat, lng |-> c.lng]

Resolved == coordinates.type # "None"
Services == { net[i].svc : i \in 1 .. Len(net) }
IsWebhookCall(c) == c.svc = "webhook"
Posts == SelectSeq(net, IsWebhookCall)
Interrupted == stderr # << >> /\ stderr[Len(stderr)] = "Error: Script execution cancelled."
Exited(code) == pc = "done" /\ exit_code = << code >>

(***************************************************************************)
(* C1.  For every ZIP code with an entry of its own in the cache file,     *)
(* whatever the other lines are, the lookup issues no geocoding call and   *)
(* returns the latitude and longitude of that entry.                       *)
(* The code fails this: the scan takes the first line that CONTAINS the    *)
(* ZIP code, which may be another ZIP code's line.                         *)
(***************************************************************************)
C1_CachedZipReturnsOwnEntry ==
    (cache_ops # << >> /\ HasEntry(options.zip_code, cache_before))
    => /\ "geo_api" \notin Services
       /\ coordinates.type = "float"
       /\ coordinates.lat = OwnEntry(options.zip_code, cache_before).lat
       /\ coordinates.lng = OwnEntry(options.zip_code, cache_before).lng

(***************************************************************************)
(* C2.  For every ZIP code without an entry in the cache file, once the    *)
(* coordinates are resolved the file is its previous content followed by   *)
(* the one line zip,lat,lng, and a second lookup of the ZIP code finds it  *)
(* and returns the same coordinates.                                       *)
(* The code fails this: a ZIP code contained in another entry's line is    *)
(* answered from that line, and nothing is appended.                       *)
(***************************************************************************)
C2_MissAppendsOneLineAndThenHits ==
    (Resolved /\ ~HasEntry(options.zip_code, cache_before))
    => /\ zip_cache.exists
       /\ zip_cache.text = cache_before.text
              \o CacheLine(options.zip_code, CoordStr(coordinates).lat, CoordStr(coordinates).lng)
       /\ LET again == get_coordinates_from_cache(options.zip_code, zip_cache)
          IN  /\ again.found /\ ~again.error
              /\ CoordValue(again.coords) = CoordValue(coordinates)

(***************************************************************************)
(* C3.  Once the temporary audio file has been written, the process ends   *)
(* with the file removed, however the webhook POST ends.  (Stated for the  *)
(* runs the user does not interrupt.)                                      *)
(* The code fails this: os.remove follows requests.post with no            *)
(* try/finally, so a POST that raises leaves the file on disk.             *)
(***************************************************************************)
C3_AudioFileRemovedAtExit ==
    (pc = "done" /\ audio_created /\ ~Interrupted) => ~audio_on_disk

(***************************************************************************)
(* C4.  A limit outside 1..20 ends the process in argument validation:     *)
(* the error message, exit code 1, no call to any service, and the cache   *)
(* file neither read nor written.                                          *)
(***************************************************************************)
C4_LimitOutOfRangeRejected ==
    (pc # "shell" /\ (options.limit < 1 \/ options.limit > 20))
    => /\ Exited(1)
       /\ stderr = << "Error: Limit must be a value between 1-20." >>
       /\ net = << >>
       /\ cache_ops = << >>
       /\ zip_cache = cache_before
       /\ stdout = ""

C4_Witness ==
    /\ Exited(1)
    /\ options.limit = 21
    /\ cache_before.exists
    /\ net = << >>

(***************************************************************************)
(* C5.  A narration key without a webhook URL is a configuration error:    *)
(* exit code 1 before any call to the geocoding, forecast, text            *)
(* generation, speech or webhook service.                                  *)
(***************************************************************************)
C5_KeyWithoutWebhookRejected ==
    (pc # "shell" /\ Truthy(options.openai_api_key) /\ ~Truthy(options.discord_webhook_url))
    => /\ Exited(1)
       /\ net = << >>
       /\ stdout = ""

C5_Witness ==
    /\ Exited(1)
    /\ options.openai_api_key = << "sk-1" >>
    /\ options.discord_webhook_url = None
    /\ options.limit = 1
    /\ stderr = << "Error: OpenAI API key requires a Discord webhook URL." >>
    /\ net = << >>

(***************************************************************************)
(* C6.  When the geocoding call fails or returns no place, the process     *)
(* exits with code 1 and the cache file is left as it was.  As long as the *)
(* geocoding call is the only call issued, nothing has been written, and   *)
(* a process that ends there ends with code 1; and a line is written only  *)
(* for a place the geocoding API returned.                                 *)
(***************************************************************************)
C6_GeocodingFailureLeavesCache ==
    /\ (Len(net) = 1 /\ net[1].svc = "geo_api")
       => /\ zip_cache = cache_before
          /\ pc = "done" => exit_code = << 1 >>
    /\ zip_cache # cache_before
       => /\ Len(net) >= 2 /\ net[1].svc = "geo_api"
          /\ coordinates = [type |-> "str", lat |-> GeoPlace(options.zip_code).latitude,
                            lng |-> GeoPlace(options.zip_code).longitude]
          /\ zip_cache = [exists |-> TRUE,
                          text |-> cache_before.text
                              \o CacheLine(options.zip_code, coordinates.lat, coordinates.lng)]

\* The geocoding API answered 200 with an empty list of places.
C6_Witness ==
    /\ Exited(1)
    /\ Len(net) = 1 /\ net[1].svc = "geo_api"
    /\ last_response = [error |-> FALSE, status |-> 200, retry_after |-> FALSE, body |-> "json"]
    /\ stderr[Len(stderr)] = "Traceback"
    /\ cache_before.exists
    /\ zip_cache = cache_before

(***************************************************************************)
(* C7.  As claimed: the retrying GET retries only on the statuses 429,     *)
(* 500, 502, 503, 504, sends at most 5 requests for one URL, and any other *)
(* 4xx status is fatal at once.                                            *)
(* The code fails the bound: Retry(total = 5) allows 5 retries after the   *)
(* first request, 6 requests in all; and it retries one more response, a   *)
(* 413 that carries a Retry-After header.                                  *)
(***************************************************************************)
GetStages == {"geo_api", "nws_location_api", "nws_forecast_api"}
RetryPending == pc \in GetStages /\ attempts >= 1
Other4xx(resp) == ~resp.error /\ resp.status \in (400 .. 499) \ {429}

C7_AtMostFiveAttempts ==
    /\ attempts <= 5
    /\ (RetryPending /\ ~last_response.error)
       => last_response.status \in {429, 500, 502, 503, 504}
    /\ Other4xx(last_response) => Exited(1)

(***************************************************************************)
(* C7, amended.  The retrying GET retries a response only on the statuses  *)
(* 429, 500, 502, 503, 504 and on a 413 that carries a Retry-After header  *)
(* (and it retries network errors), sends at most 6 requests for one URL,  *)
(* the first and 5 retries, after which the run is fatal; any other 4xx    *)
(* response is fatal at once.                                              *)
(***************************************************************************)
Is413RetryAfter(resp) == ~resp.error /\ resp.status = 413 /\ resp.retry_after

C7_AtMostSixAttempts ==
    /\ attempts <= 6
    /\ attempts = 6 => Exited(1)
    /\ RetryPending
       => \/ last_response.error
          \/ last_response.status \in {429, 500, 502, 503, 504}
          \/ Is413RetryAfter(last_response)
    /\ (Other4xx(last_response) /\ ~Is413RetryAfter(last_response)) => Exited(1)

\* Six 503 answers in a row: the sixth ends the run.
C7_Witness ==
    /\ Exited(1)
    /\ attempts = 6
    /\ last_response = [error |-> FALSE, status |-> 503, retry_after |-> FALSE, body |-> ""]
    /\ ~Interrupted

(***************************************************************************)
(* C8.  When one of the three GETs ends in failure (a status that is not   *)
(* retried, the retries used up, or a 200 answer whose body is cut short   *)
(* or is not JSON), the process ends with an error                         *)
(* message and exit code 1, and with no partial result: nothing on         *)
(* standard output, no call after the failed GET, no webhook POST.         *)
(***************************************************************************)
GetFailed ==
    /\ net # << >>
    /\ net[Len(net)].svc \in GetStages \/ Len(net) > 3
    /\ \/ last_response.error /\ attempts >= 6
       \/ ~last_response.error /\ last_response.body \in {"cut", "not_json"}
       \/ /\ ~last_response.error
          /\ last_response.status >= 400
          /\ \/ /\ last_response.status \notin {429, 500, 502, 503, 504}
                /\ ~Is413RetryAfter(last_response)
             \/ attempts >= 6

C8_FailedGetEndsRun ==
    GetFailed
    => /\ Exited(1)
       /\ SubSeq(stderr[Len(stderr)], 1, 7) = "Error: "
       /\ stdout = ""
       /\ forecast_text = ""
       /\ Services \subseteq GetStages
       /\ Posts = << >>

\* The forecast GET answers 404 in a run that has a webhook to post to.
C8_Witness ==
    /\ Exited(1)
    /\ net # << >>
    /\ net[Len(net)].svc = "nws_forecast_api"
    /\ last_response = [error |-> FALSE, status |-> 404, retry_after |-> FALSE, body |-> ""]
    /\ Truthy(options.discord_webhook_url)
    /\ Posts = << >>
    /\ stdout = ""

(***************************************************************************)
(* C9.  As claimed: the webhook option holds one or more comma-separated   *)
(* URLs, and a delivery makes exactly one POST to each of them, carrying   *)
(* the forecast text: with the audio file when a narration key is set,     *)
(* and the text alone, no audio file created, when not.                    *)
(* The code does not: the option's value is used whole as one URL.         *)
(***************************************************************************)
PostsTo(t) == { i \in 1 .. Len(net) : net[i].svc = "webhook" /\ net[i].url = t }

C9_OnePostPerTarget ==
    (Exited(0) /\ Truthy(options.discord_webhook_url))
    => /\ LET urls == Split(options.discord_webhook_url[1], ",")
          IN  \A t \in { urls[k] : k \in 1 .. Len(urls) } :
                /\ Cardinality(PostsTo(t)) = 1
                /\ \A i \in PostsTo(t) : /\ net[i].content = forecast_text
                                         /\ net[i].file = Truthy(options.openai_api_key)
       /\ ~Truthy(options.openai_api_key) => ~audio_created

(***************************************************************************)
(* C10.  As claimed: without a narration key, output_forecast prints the   *)
(* forecast text to standard output and returns, creating no audio file    *)
(* and calling neither the text-generation nor the speech service.         *)
(* The code fails this: with a webhook URL and no key the text is posted   *)
(* and nothing is printed.                                                 *)
(***************************************************************************)
NarrationServices == {"chat.completions", "audio.speech"}

C10_NoKeyPrints ==
    (Exited(0) /\ ~Truthy(options.openai_api_key))
    => /\ stdout = forecast_text
       /\ stdout # ""
       /\ ~audio_created
       /\ Services \cap NarrationServices = {}

(***************************************************************************)
(* C10, amended.  Without a narration key, output_forecast creates no      *)
(* audio file and calls neither the text-generation nor the speech         *)
(* service; it prints the forecast text to standard output and returns     *)
(* when no webhook URL is given either, and with a webhook URL it posts    *)
(* the text and prints nothing.                                            *)
(***************************************************************************)
C10_NoKeyPrintsUnlessWebhook ==
    ~Truthy(options.openai_api_key)
    => /\ ~audio_created
       /\ Services \cap NarrationServices = {}
       /\ Exited(0)
          => IF Truthy(options.discord_webhook_url)
             THEN stdout = "" /\ Len(Posts) = 1
             ELSE stdout = forecast_text /\ stdout # "" /\ Posts = << >>
       /\ stdout # "" => Exited(0) /\ ~Truthy(options.discord_webhook_url)

\* An empty string given as the key counts as no key: the text is printed.
C10_Witness ==
    /\ Exited(0)
    /\ options.openai_api_key = << "" >>
    /\ options.discord_webhook_url = None
    /\ stdout = forecast_text
    /\ stdout # ""

(***************************************************************************)
(* C11.  As claimed: get_weather_icon returns the icon of the first        *)
(* keyword, in the order sunny, clear, cloudy, rain, thunder or t-storm,   *)
(* snow, fog, that occurs in the string without regard to case (so rain    *)
(* wins over snow), and the "unknown" icon exactly when none of them       *)
(* occurs.                                                                 *)
(* The code fails this: its table has no "t-storm" and no "fog" keyword.   *)
(***************************************************************************)
Occurs(keyword) == Contains(keyword, Lower(short_forecast))
OccursAny(keywords) == \E k \in keywords : Occurs(k)

\* Whether the icon returned is the one of the first class, in the order
\* given, with a keyword in the string, and "[?]" exactly when there is none.
\* classes[i] is << keywords, icon >>; an icon of "" stands for any icon but "[?]".
FirstClassWins(classes) ==
    LET hits == { i \in 1 .. Len(classes) : OccursAny(classes[i][1]) }
    IN  /\ (weather_icon[1] = "[?]") <=> (hits = {})
        /\ \A i \in hits :
              ((\A j \in hits : i <= j) /\ classes[i][2] # "")
              => weather_icon[1] = classes[i][2]

C11_FirstOfSevenKeywords ==
    weather_icon # None
    => FirstClassWins(<< << {"sunny"}, "[sun]" >>, << {"clear"}, "[moon]" >>,
                         << {"cloudy"}, "[cloud]" >>, << {"rain"}, "[rain]" >>,
                         << {"thunder", "t-storm"}, "[storm]" >>,
                         << {"snow"}, "[snowflake]" >>, << {"fog"}, "" >> >>)

(***************************************************************************)
(* C11, amended.  get_weather_icon returns the icon of the first keyword,  *)
(* in the order sunny, clear, cloudy, rain, thunder, snow, that occurs in  *)
(* the string without regard to case (so rain wins over snow), and the     *)
(* "unknown" icon exactly when none of these six occurs.                   *)
(***************************************************************************)
C11_FirstOfSixKeywords ==
    weather_icon # None
    => FirstClassWins(<< << {"sunny"}, "[sun]" >>, << {"clear"}, "[moon]" >>,
                         << {"cloudy"}, "[cloud]" >>, << {"rain"}, "[rain]" >>,
                         << {"thunder"}, "[storm]" >>, << {"snow"}, "[snowflake]" >> >>)

\* A string with both rain and snow, snow first, has been given the rain icon.
C11_Witness ==
    /\ short_forecast = "snow And RAIN"
    /\ weather_icon = << "[rain]" >>

(***************************************************************************)
(* C12.  For every limit in 1..20 and every sequence of n periods the      *)
(* forecast API returned, construct_output yields the header followed by   *)
(* exactly min(limit, n) period blocks: those of the first periods of the  *)
(* sequence, in their order.                                               *)
(***************************************************************************)
\* construct_output is over: it returned its text or raised IndexError.
ConstructOutputOver ==
    /\ "nws_forecast_api" \in Services
    /\ pc \notin {"nws_forecast_api", "render"}
    /\ last_response = [error |-> FALSE, status |-> 200, retry_after |-> FALSE, body |-> "json"]
    /\ ~(Interrupted /\ forecast_text = "")

C12_RenderTruncatesToLeadingPeriods ==
    (ConstructOutputOver /\ options.limit \in 1 .. 20)
    => forecast_text =
          OutputHeader(location, options.markdown)
          \o PeriodBlocks(periods, Min({options.limit, Len(periods)}), options.markdown)

=============================================================================
